---- MODULE Spec2Model ----
(***************************************************************************)
(* A model of semchunk-rs: the Splitter (src/src/splitter.rs) and the      *)
(* Chunker (src/src/chunker.rs).                                           *)
(*                                                                         *)
(* A text is a sequence of characters; a character is an atom (a short     *)
(* string naming it) with an encoded length in bytes, because the code     *)
(* measures strings in bytes (str::len) in several places.                 *)
(***************************************************************************)
EXTENDS Integers, Sequences, FiniteSets, TLC

(***************************************************************************)
(* Bounds of the model.                                                    *)
(***************************************************************************)
\* longest text handed to Splitter::split_text in SpecSplit
MaxSplitLen == 5
\* longest arbitrary text handed to Chunker::chunk in Spec
MaxLen == 5
\* most words of a "word word word" text handed to Chunker::chunk in Spec
MaxWords == 5
\* largest chunk_size a Chunker is constructed with
MaxChunkSize == 3
\* deepest _chunk recursion followed before the call stack is taken as exhausted
MaxDepth == 4
\* iterations of the walk of one _chunk activation followed past the number of
\* its sub-spans (a walk that does not advance never ends)
MaxExtraSteps == 2

(***************************************************************************)
(* Characters.                                                             *)
(***************************************************************************)
LF == "LF"          \* "\n"
CR == "CR"          \* "\r"
TAB == "TAB"        \* "\t"
SP == "SP"          \* " "
NBSP == "NBSP"      \* U+00A0, whitespace for the regex \s, 2 bytes in UTF-8
EACUTE == "EACUTE"  \* U+00E9, a letter of 2 bytes in UTF-8

\* str::len of one character: its UTF-8 length
ByteLen(c) ==
    IF c \in {"LDQUO", "RDQUO", "LSQUO", "RSQUO", "EMDASH", "ELLIPSIS", "ENDASH"}
    THEN 3
    ELSE IF c \in {NBSP, EACUTE} THEN 2 ELSE 1

RECURSIVE Bytes(_)
\* str::len: the length of a string in bytes
Bytes(s) == IF s = <<>> THEN 0 ELSE ByteLen(Head(s)) + Bytes(Tail(s))

\* the class [\n\r] of the line_carriage pattern
IsLineCarriage(c) == c \in {LF, CR}
\* the pattern \t
IsTab(c) == c = TAB
\* the class \s (Unicode White_Space), on the characters of the model
IsSpace(c) == c \in {LF, CR, TAB, SP, NBSP}

\* the three compiled patterns of a Splitter
Matches(pattern, c) ==
    CASE pattern = "line_carriage" -> IsLineCarriage(c)
      [] pattern = "tab" -> IsTab(c)
      [] pattern = "space" -> IsSpace(c)

\* str::contains for a one-character needle
Contains(text, c) == \E i \in 1..Len(text) : text[i] = c

\* The 25 entries of the list, in its order, each named by what it is:
\*   . ? ! *   ; , ( ) [ ] (four curly quotes) ' " `   : (em dash) (ellipsis)
\*   / \ (en dash) & -
NON_WHITESPACE_SEMANTIC_SEPARATORS ==
    << "DOT", "QUESTION", "BANG", "STAR",
       "SEMICOLON", "COMMA", "LPAREN", "RPAREN", "LBRACKET", "RBRACKET",
       "LDQUO", "RDQUO", "LSQUO", "RSQUO", "APOSTROPHE", "DQUOTE", "BACKTICK",
       "COLON", "EMDASH", "ELLIPSIS",
       "SLASH", "BACKSLASH", "ENDASH", "AMPERSAND", "HYPHEN" >>

(***************************************************************************)
(* Sequence helpers standing for the standard library calls of the code.   *)
(***************************************************************************)
RECURSIVE Flatten(_)
\* concatenation of a sequence of strings
Flatten(ss) == IF ss = <<>> THEN <<>> ELSE Head(ss) \o Flatten(Tail(ss))

RECURSIVE Join(_, _)
\* [&str]::join(separator)
Join(ss, sep) ==
    IF ss = <<>> THEN <<>>
    ELSE IF Len(ss) = 1 THEN Head(ss)
    ELSE Head(ss) \o sep \o Join(Tail(ss), sep)

RECURSIVE SplitFrom(_, _, _, _)
SplitFrom(text, sep, i, cur) ==
    IF i > Len(text) THEN <<cur>>
    ELSE IF i + Len(sep) - 1 <= Len(text) /\ SubSeq(text, i, i + Len(sep) - 1) = sep
         THEN <<cur>> \o SplitFrom(text, sep, i + Len(sep), <<>>)
         ELSE SplitFrom(text, sep, i + 1, Append(cur, text[i]))

\* str::split(separator) for a non-empty separator: the pieces around the
\* non-overlapping occurrences found left to right, empty pieces included
StrSplit(text, sep) == SplitFrom(text, sep, 1, <<>>)

\* str::split(""): an empty string, every character, an empty string
StrSplitEmpty(text) == <<<<>>>> \o [i \in 1..Len(text) |-> <<text[i]>>] \o <<<<>>>>

RECURSIVE FindFrom(_, _, _)
FindFrom(pattern, text, i) ==
    IF i > Len(text) THEN <<>>
    ELSE IF ~Matches(pattern, text[i]) THEN FindFrom(pattern, text, i + 1)
    ELSE IF pattern = "line_carriage"
         THEN LET j == CHOOSE k \in i..Len(text) :
                           /\ \A m \in i..k : Matches(pattern, text[m])
                           /\ (k = Len(text) \/ ~Matches(pattern, text[k + 1]))
              IN  <<SubSeq(text, i, j)>> \o FindFrom(pattern, text, j + 1)
         ELSE <<<<text[i]>>>> \o FindFrom(pattern, text, i + 1)

\* Regex::find_iter: the matches left to right. [\n\r]+ matches greedily, so
\* each match is a maximal run; \t and \s match one character at a time
FindIter(pattern, text) == FindFrom(pattern, text, 1)

RECURSIVE MaxByKeyFirst(_)
\* max_by_key as it would be if ties went to the first greatest element
MaxByKeyFirst(ms) ==
    IF Len(ms) = 1 THEN ms[1]
    ELSE LET best == MaxByKeyFirst(SubSeq(ms, 1, Len(ms) - 1))
         IN  IF Bytes(ms[Len(ms)]) > Bytes(best) THEN ms[Len(ms)] ELSE best

RECURSIVE MaxByKey(_)
\* Iterator::max_by_key(|s| s.len()): the element of greatest byte length, the
\* last one when several are equally long
MaxByKey(ms) ==
    IF Len(ms) = 1 THEN ms[1]
    ELSE LET best == MaxByKey(SubSeq(ms, 1, Len(ms) - 1))
         IN  IF Bytes(ms[Len(ms)]) >= Bytes(best) THEN ms[Len(ms)] ELSE best

(***************************************************************************)
(* Splitter::split_text                                                    *)
(***************************************************************************)
\* the choice as it would be if a tab were looked for before a line break
SearchPatternTabFirst(text) ==
    IF Contains(text, TAB) THEN "tab"
    ELSE IF Contains(text, LF) \/ Contains(text, CR) THEN "line_carriage"
    ELSE IF \E i \in 1..Len(text) : IsSpace(text[i]) THEN "space"
    ELSE "none"

\* separator_search_pattern as chosen at splitter.rs:105-112, "none" for
\* Option::None
SearchPattern(text) ==
    IF Contains(text, LF) \/ Contains(text, CR) THEN "line_carriage"
    ELSE IF Contains(text, TAB) THEN "tab"
    ELSE IF \E i \in 1..Len(text) : IsSpace(text[i]) THEN "space"
    ELSE "none"

RECURSIVE FindFirstFrom(_, _)
FindFirstFrom(text, k) ==
    IF k > Len(NON_WHITESPACE_SEMANTIC_SEPARATORS) THEN "none"
    ELSE IF Contains(text, NON_WHITESPACE_SEMANTIC_SEPARATORS[k])
         THEN NON_WHITESPACE_SEMANTIC_SEPARATORS[k]
         ELSE FindFirstFrom(text, k + 1)

\* NON_WHITESPACE_SEMANTIC_SEPARATORS.iter().find(|c| text.contains(c)): the
\* first entry of the list that occurs in the text, "none" for Option::None
FindSeparator(text) == FindFirstFrom(text, 1)

\* the degenerate return of splitter.rs:136-144:
\* text.split("").collect().get(1..text.len() + 1).unwrap().to_vec()
\* get is None, and unwrap panics, when the range passes the end of the vector
SplitCharacters(text) ==
    LET all == StrSplitEmpty(text)
        end == Bytes(text) + 1
    IN  IF end <= Len(all)
        THEN [separator |-> <<>>, separator_is_whitespace |-> TRUE,
              text_splits |-> SubSeq(all, 2, end), panicked |-> FALSE]
        ELSE [separator |-> <<>>, separator_is_whitespace |-> TRUE,
              text_splits |-> <<>>, panicked |-> TRUE]

split_text(text) ==
    LET pattern == SearchPattern(text)
    IN  IF pattern # "none"
        THEN LET separator == MaxByKey(FindIter(pattern, text))
             IN  [separator |-> separator, separator_is_whitespace |-> TRUE,
                  text_splits |-> StrSplit(text, separator), panicked |-> FALSE]
        ELSE IF FindSeparator(text) # "none"
             THEN LET separator == <<FindSeparator(text)>>
                  IN  [separator |-> separator, separator_is_whitespace |-> FALSE,
                       text_splits |-> StrSplit(text, separator), panicked |-> FALSE]
             ELSE SplitCharacters(text)

(***************************************************************************)
(* Token counters. The counter is a closure the caller supplies            *)
(* (Box<dyn Fn(&str) -> usize>); the model draws it from three:            *)
(*   words: s.len() - s.replace(" ", "").len() + 1, the counter of every   *)
(*          example and test of the crate (the number of spaces, plus 1);  *)
(*   chars: s.chars().count(), one token per character;                    *)
(*   bytes: s.len(), one token per byte.                                   *)
(***************************************************************************)
Counters == {"words", "chars", "bytes"}

\* str::replace(" ", "")
RemoveSpaces(s) == SelectSeq(s, LAMBDA c : c # SP)

\* (self.token_counter)(s)
Count(cnt, s) ==
    CASE cnt = "words" -> Bytes(s) - Bytes(RemoveSpaces(s)) + 1
      [] cnt = "chars" -> Len(s)
      [] cnt = "bytes" -> Bytes(s)

(***************************************************************************)
(* State.                                                                  *)
(***************************************************************************)
VARIABLES
    chunk_size,   \* Chunker.chunk_size
    counter,      \* Chunker.token_counter, one of Counters
    status,       \* "idle", "running", "done", "panic" or "overflow"
    input,        \* the text given to chunk, or to split_text in SpecSplit
    stack,        \* the activations of _chunk, the innermost last
    merge,        \* the activation of merge_splits, pc = "idle" when there is none
    result,       \* what chunk returned
    returned,     \* the last return of _chunk: its text, depth and chunk list, and
                  \* history: whether a return has dropped an empty chunk so far
    separators,   \* history: the whitespace separators split_text has returned
                  \* to _chunk since chunk was called
    split_result  \* what split_text returned (SpecSplit)

vars == <<chunk_size, counter, status, input, stack, merge, result, returned, separators,
          split_result>>

NoMerge ==
    [pc |-> "idle", splits |-> <<>>, separator |-> <<>>, low |-> 0, high |-> 0,
     est_midpoint |-> 0, n_tokens |-> 0, num |-> 5, den |-> 1, calls |-> 0]

\* no call of _chunk has returned yet
NoReturn == [text |-> <<>>, recursion_depth |-> 0, chunks |-> <<>>, dropped |-> FALSE]

NoSplit ==
    [separator |-> <<>>, separator_is_whitespace |-> TRUE, text_splits |-> <<>>,
     panicked |-> FALSE]

Top == stack[Len(stack)]

\* the history of separators once split_text has returned sp
Noted(seps, sp) ==
    IF ~sp.panicked /\ sp.separator_is_whitespace /\ sp.separator # <<>>
    THEN seps \cup {sp.separator}
    ELSE seps

\* the locals of a _chunk activation once split_text has returned (lines 100-105)
Frame(text, depth, sp) ==
    [text |-> text, recursion_depth |-> depth, separator |-> sp.separator,
     separator_is_whitespace |-> sp.separator_is_whitespace,
     text_splits |-> sp.text_splits, i |-> 0, chunks |-> <<>>, steps |-> 0]

(***************************************************************************)
(* Chunker::merge_splits                                                   *)
(***************************************************************************)
\* cumulative_split_char_counts (lines 172-178): the running sum of s.len()
CumulativeCounts(splits) ==
    [k \in 1..Len(splits) |-> Bytes(Flatten(SubSeq(splits, 1, k)))]

\* bisection::bisect_left on a sorted slice: the index of its first element
\* that is >= x, its length when there is none
BisectLeft(a, x) ==
    LET at == { k \in 1..Len(a) : a[k] >= x }
    IN  IF at = {} THEN Len(a)
        ELSE (CHOOSE k \in at : \A m \in at : k <= m) - 1

\* (self.chunk_size as f64 * tokens_per_split) as u64, tokens_per_split being
\* num / den (5.0 at first, n_tokens / cumulative count later). For the
\* numbers of the model the f64 product truncates to the exact quotient.
Target(cs, num, den) == (cs * num) \div den

Min(a, b) == IF a <= b THEN a ELSE b

\* the locals of merge_splits when its loop is entered (lines 167-178)
MergeEntry(splits, separator) ==
    [pc |-> "loop", splits |-> splits, separator |-> separator,
     low |-> 0, high |-> Len(splits), est_midpoint |-> 0, n_tokens |-> 0,
     num |-> 5, den |-> 1, calls |-> 0]

\* an iteration as it would be if the Less branch kept the measured index as
\* the new low instead of stepping past it
MergeIterateNoAdvance(m, cs, cnt) ==
    LET cum == CumulativeCounts(m.splits)
        increment_by == BisectLeft(SubSeq(cum, m.low + 1, m.high), Target(cs, m.num, m.den))
        est == Min(m.low + increment_by, m.high - 1)
        n == Count(cnt, Join(SubSeq(m.splits, 1, est), m.separator))
        upd == n > 0 /\ cum[est + 1] > 0
    IN  [m EXCEPT !.est_midpoint = est, !.n_tokens = n, !.calls = @ + 1,
                  !.high = IF n > cs THEN est ELSE @,
                  !.low = IF n > cs THEN @ ELSE est,
                  !.pc = IF n = cs THEN "break" ELSE "loop",
                  !.num = IF upd THEN n ELSE @,
                  !.den = IF upd THEN cum[est + 1] ELSE @]

\* one iteration of the loop of merge_splits (lines 180-203)
MergeIterate(m, cs, cnt) ==
    LET cum == CumulativeCounts(m.splits)
        increment_by == BisectLeft(SubSeq(cum, m.low + 1, m.high), Target(cs, m.num, m.den))
        est == Min(m.low + increment_by, m.high - 1)
        n == Count(cnt, Join(SubSeq(m.splits, 1, est), m.separator))
        upd == n > 0 /\ cum[est + 1] > 0
    IN  [m EXCEPT !.est_midpoint = est, !.n_tokens = n, !.calls = @ + 1,
                  !.high = IF n > cs THEN est ELSE @,
                  !.low = IF n > cs THEN @ ELSE IF n = cs THEN est ELSE est + 1,
                  !.pc = IF n = cs THEN "break" ELSE "loop",
                  !.num = IF upd THEN n ELSE @,
                  !.den = IF upd THEN cum[est + 1] ELSE @]

\* the value merge_splits returns (line 204): (low, splits[..low].join(separator))
MergeResult(m) ==
    [split_idx |-> m.low, merged_chunk |-> Join(SubSeq(m.splits, 1, m.low), m.separator)]

(***************************************************************************)
(* Chunker::_chunk                                                         *)
(***************************************************************************)
\* the re-attachment as it would be if a separator that does not fit were dropped
ReattachOrDrop(chunks, separator, is_ws, i, nsplits, cs, cnt) ==
    IF ~is_ws /\ i < nsplits
    THEN IF Len(chunks) = 0
         THEN [chunks |-> chunks, panicked |-> TRUE]
         ELSE LET last_chunk_with_separator == chunks[Len(chunks)] \o separator
              IN  IF Count(cnt, last_chunk_with_separator) <= cs
                  THEN [chunks |-> [chunks EXCEPT ![Len(chunks)] = last_chunk_with_separator],
                        panicked |-> FALSE]
                  ELSE [chunks |-> chunks, panicked |-> FALSE]
    ELSE [chunks |-> chunks, panicked |-> FALSE]

\* the re-attachment as it would be if the separator were appended in place
\* without measuring the result
ReattachUnchecked(chunks, separator, is_ws, i, nsplits, cs, cnt) ==
    IF ~is_ws /\ i < nsplits
    THEN IF Len(chunks) = 0
         THEN [chunks |-> chunks, panicked |-> TRUE]
         ELSE [chunks |-> [chunks EXCEPT ![Len(chunks)] = @ \o separator],
               panicked |-> FALSE]
    ELSE [chunks |-> chunks, panicked |-> FALSE]

\* lines 121-130: the separator re-attached after a step of the walk.
\* chunks[n_chunks - 1] panics when the list is empty.
Reattach(chunks, separator, is_ws, i, nsplits, cs, cnt) ==
    IF ~is_ws /\ i < nsplits
    THEN IF Len(chunks) = 0
         THEN [chunks |-> chunks, panicked |-> TRUE]
         ELSE LET last_chunk_with_separator == chunks[Len(chunks)] \o separator
              IN  IF Count(cnt, last_chunk_with_separator) <= cs
                  THEN [chunks |-> [chunks EXCEPT ![Len(chunks)] = last_chunk_with_separator],
                        panicked |-> FALSE]
                  ELSE [chunks |-> Append(chunks, separator), panicked |-> FALSE]
    ELSE [chunks |-> chunks, panicked |-> FALSE]

\* the return as it would be if the empty chunks were dropped at every depth
ReturnedFiltered(chunks, depth) ==
    SelectSeq(chunks, LAMBDA c : c # <<>>)

\* lines 132-139: a recursive call returns its chunks without the empty ones
Returned(chunks, depth) ==
    IF depth > 0 THEN SelectSeq(chunks, LAMBDA c : c # <<>>) ELSE chunks

(***************************************************************************)
(* Inputs.                                                                 *)
(***************************************************************************)
Texts(alphabet, n) == UNION { [1..k -> alphabet] : k \in 0..n }

\* the characters of the texts given to chunk: a letter, a space, a line
\* feed, a full stop and a letter of two bytes
ChunkAlphabet == {"a", SP, LF, "DOT", EACUTE}

\* whitespace-free words, and the texts made of 1..MaxWords of them separated
\* by single spaces
Words == { <<"a">>, <<"b", "b">> }
WordTexts == { Join(ws, <<SP>>) : ws \in UNION { [1..n -> Words] : n \in 1..MaxWords } }

ChunkInputs == Texts(ChunkAlphabet, MaxLen) \cup WordTexts

\* the characters of the texts given to split_text
SplitAlphabet == {LF, CR, TAB, SP, NBSP, "BANG", "COMMA", "a", EACUTE}
SplitInputs == Texts(SplitAlphabet, MaxSplitLen)

(***************************************************************************)
(* Actions.                                                                *)
(***************************************************************************)
\* Chunker::new(chunk_size, token_counter): nothing is checked
Init ==
    /\ chunk_size \in 0..MaxChunkSize
    /\ counter \in Counters
    /\ status = "idle"
    /\ input = <<>>
    /\ stack = <<>>
    /\ merge = NoMerge
    /\ result = <<>>
    /\ returned = NoReturn
    /\ separators = {}
    /\ split_result = NoSplit

\* chunk(text): _chunk(text, 0) is entered and calls split_text (lines 223-225, 100)
Chunk ==
    /\ status = "idle"
    /\ \E text \in ChunkInputs :
         LET sp == split_text(text)
         IN  /\ input' = text
             /\ separators' = Noted(separators, sp)
             /\ IF sp.panicked
                THEN /\ status' = "panic"
                     /\ stack' = stack
                ELSE /\ status' = "running"
                     /\ stack' = <<Frame(text, 0, sp)>>
    /\ UNCHANGED <<chunk_size, counter, merge, result, returned, split_result>>

Walking == status = "running" /\ merge.pc = "idle" /\ stack # <<>>

\* lines 107-113, first half: the sub-span is over the budget and _chunk is
\* called on it; the callee calls split_text
Recurse ==
    /\ Walking
    /\ Top.i < Len(Top.text_splits)
    /\ Count(counter, Top.text_splits[Top.i + 1]) > chunk_size
    /\ LET sub == Top.text_splits[Top.i + 1]
           sp == split_text(sub)
       IN  IF Top.recursion_depth >= MaxDepth
           THEN /\ status' = "overflow"
                /\ stack' = stack
                /\ separators' = separators
           ELSE /\ separators' = Noted(separators, sp)
                /\ IF sp.panicked
                   THEN /\ status' = "panic"
                        /\ stack' = stack
                   ELSE /\ status' = status
                        /\ stack' = Append(stack, Frame(sub, Top.recursion_depth + 1, sp))
    /\ UNCHANGED <<chunk_size, counter, input, merge, result, returned, split_result>>

\* line 116: the sub-span fits and merge_splits is called on text_splits[i..]
MergeCall ==
    /\ Walking
    /\ Top.i < Len(Top.text_splits)
    /\ Count(counter, Top.text_splits[Top.i + 1]) <= chunk_size
    /\ Top.steps < Len(Top.text_splits) + MaxExtraSteps
    /\ merge' = MergeEntry(SubSeq(Top.text_splits, Top.i + 1, Len(Top.text_splits)),
                           Top.separator)
    /\ UNCHANGED <<chunk_size, counter, status, input, stack, result, returned, separators,
                   split_result>>

\* lines 180-203: one iteration of the loop of merge_splits
MergeLoop ==
    /\ status = "running"
    /\ merge.pc = "loop"
    /\ merge.low < merge.high
    /\ merge' = MergeIterate(merge, chunk_size, counter)
    /\ UNCHANGED <<chunk_size, counter, status, input, stack, result, returned, separators,
                   split_result>>

\* line 204 and lines 117-130: merge_splits returns, the merged chunk is
\* pushed, the walk advances by split_idx and the separator is re-attached
MergeReturn ==
    /\ status = "running"
    /\ merge.pc = "break" \/ (merge.pc = "loop" /\ merge.low >= merge.high)
    /\ LET r == MergeResult(merge)
           i == Top.i + r.split_idx
           re == Reattach(Append(Top.chunks, r.merged_chunk), Top.separator,
                          Top.separator_is_whitespace, i, Len(Top.text_splits),
                          chunk_size, counter)
       IN  /\ status' = IF re.panicked THEN "panic" ELSE status
           /\ stack' = [stack EXCEPT ![Len(stack)] =
                           [@ EXCEPT !.i = i, !.chunks = re.chunks, !.steps = @ + 1]]
    /\ merge' = [merge EXCEPT !.pc = "idle"]
    /\ UNCHANGED <<chunk_size, counter, input, result, returned, separators, split_result>>

\* lines 132-139 in the callee and lines 110-113, 121-130 in the caller: the
\* walk of the innermost activation is over, it returns its chunks, and the
\* caller pushes them, advances by one and re-attaches the separator
Return ==
    /\ Walking
    /\ Top.i >= Len(Top.text_splits)
    /\ LET out == Returned(Top.chunks, Top.recursion_depth)
       IN  /\ returned' = [text |-> Top.text, recursion_depth |-> Top.recursion_depth,
                           chunks |-> out,
                           dropped |-> returned.dropped \/ Len(out) < Len(Top.chunks)]
           /\ IF Len(stack) = 1
              THEN /\ status' = "done"
                   /\ result' = out
                   /\ stack' = <<>>
              ELSE LET caller == stack[Len(stack) - 1]
                       i == caller.i + 1
                       re == Reattach(caller.chunks \o out, caller.separator,
                                      caller.separator_is_whitespace, i,
                                      Len(caller.text_splits), chunk_size, counter)
                   IN  /\ status' = IF re.panicked THEN "panic" ELSE status
                       /\ result' = result
                       /\ stack' = Append(SubSeq(stack, 1, Len(stack) - 2),
                                          [caller EXCEPT !.i = i, !.chunks = re.chunks,
                                                         !.steps = @ + 1])
    /\ UNCHANGED <<chunk_size, counter, input, merge, separators, split_result>>

Next == Chunk \/ Recurse \/ MergeCall \/ MergeLoop \/ MergeReturn \/ Return

Spec == Init /\ [][Next]_vars

(***************************************************************************)
(* Splitter::split_text called on its own.                                 *)
(***************************************************************************)
InitSplit ==
    /\ chunk_size = 1
    /\ counter = "words"
    /\ status = "idle"
    /\ input = <<>>
    /\ stack = <<>>
    /\ merge = NoMerge
    /\ result = <<>>
    /\ returned = NoReturn
    /\ separators = {}
    /\ split_result = NoSplit

\* Splitter::default().split_text(text)
SplitText ==
    /\ status = "idle"
    /\ \E text \in SplitInputs :
         /\ input' = text
         /\ split_result' = split_text(text)
         /\ status' = IF split_text(text).panicked THEN "panic" ELSE "done"
    /\ UNCHANGED <<chunk_size, counter, stack, merge, result, returned, separators>>

NextSplit == SplitText

SpecSplit == InitSplit /\ [][NextSplit]_vars

(***************************************************************************)
(* Properties.                                                             *)
(***************************************************************************)
\* every character of the text alone is within the budget
AtomsFit(text) ==
    \A k \in 1..Len(text) : Count(counter, <<text[k]>>) <= chunk_size

\* C1 (budget), as claimed: when chunk_size >= 1 and no single character of
\* the text counts more than chunk_size tokens, every chunk that chunk(text)
\* returns counts at most chunk_size tokens.
C1_Budget ==
    (status = "done" /\ chunk_size >= 1 /\ AtomsFit(input))
        => \A k \in 1..Len(result) : Count(counter, result[k]) <= chunk_size

\* merge_splits has left its loop and is about to return
MergeFinished ==
    merge.pc = "break" \/ (merge.pc = "loop" /\ merge.low >= merge.high)

\* count_tokens of the first k sub-spans joined by the separator
PrefixCount(m, k) == Count(counter, Join(SubSeq(m.splits, 1, k), m.separator))

\* the token counter does not decrease as the prefix grows
PrefixMonotone(m) ==
    \A k \in 0..(Len(m.splits) - 1) : PrefixCount(m, k) <= PrefixCount(m, k + 1)

\* the result of probing every prefix length: the largest that fits
LinearProbe(m) ==
    CHOOSE k \in 0..Len(m.splits) :
        /\ PrefixCount(m, k) <= chunk_size
        /\ \A j \in 0..Len(m.splits) : PrefixCount(m, j) <= chunk_size => j <= k

\* C2 (merge maximality), as claimed: for chunk_size >= 1, a non-empty
\* sequence of sub-spans whose first element fits and a counter that is
\* non-decreasing in the prefix length, merge_splits returns as count_consumed
\* the largest k whose joined prefix fits, the k of an exhaustive linear probe.
C2_MergeMaximal ==
    (/\ MergeFinished
     /\ chunk_size >= 1
     /\ merge.splits # <<>>
     /\ PrefixCount(merge, 1) <= chunk_size
     /\ PrefixMonotone(merge))
        => MergeResult(merge).split_idx = LinearProbe(merge)

\* C3 (termination), as claimed: for chunk_size >= 1 every recursive call of
\* _chunk is made on a span strictly shorter than its caller's, and the walk
\* of each call ends: it makes no more iterations than there are sub-spans.
C3_Terminates ==
    chunk_size >= 1 =>
        /\ \A k \in 2..Len(stack) : Len(stack[k].text) < Len(stack[k - 1].text)
        /\ \A k \in 1..Len(stack) : stack[k].steps <= Len(stack[k].text_splits)
        /\ status # "overflow"

\* C4 (indivisible atom), as claimed: a span of one character whose token
\* count is over chunk_size is not recursed into; the call on it returns the
\* one-element list holding that character.
C4_AtomEmitted ==
    chunk_size >= 1 =>
        /\ \A k \in 1..Len(stack) :
              (Len(stack[k].text) = 1 /\ Count(counter, stack[k].text) > chunk_size)
                  => k = Len(stack)
        /\ (Len(returned.text) = 1 /\ Count(counter, returned.text) > chunk_size)
              => returned.chunks = <<returned.text>>

RECURSIVE SeparatorRun(_, _)
\* g is zero or more of the separators of seps, one after the other
SeparatorRun(g, seps) ==
    \/ g = <<>>
    \/ \E sep \in seps :
          /\ Len(sep) <= Len(g)
          /\ SubSeq(g, 1, Len(sep)) = sep
          /\ SeparatorRun(SubSeq(g, Len(sep) + 1, Len(g)), seps)

RECURSIVE Rebuilds(_, _, _)
\* text is the chunks in order with, before, between and after them, zero or
\* more of the separators of seps put back
Rebuilds(chunks, text, seps) ==
    IF chunks = <<>> THEN SeparatorRun(text, seps)
    ELSE \E j \in 0..Len(text) :
            /\ SeparatorRun(SubSeq(text, 1, j), seps)
            /\ j + Len(Head(chunks)) <= Len(text)
            /\ SubSeq(text, j + 1, j + Len(Head(chunks))) = Head(chunks)
            /\ Rebuilds(Tail(chunks), SubSeq(text, j + Len(Head(chunks)) + 1, Len(text)), seps)

\* C5 (reconstruction): for chunk_size >= 1, when chunk(text) returns, the
\* text is the returned chunks in order with the separators folded back in:
\* a non-whitespace separator is in the output already (re-attached to a chunk
\* or a chunk of its own), and between two chunks (and around them, where an
\* empty fragment was dropped) only whitespace separators that split_text
\* chose during the call are missing. No other character is lost, added or
\* moved.
C5_Reconstruction ==
    (status = "done" /\ chunk_size >= 1) => Rebuilds(result, input, separators)

\* C5's case: a returned list of several chunks, one of them a full stop on its
\* own, from a text with a letter, a full stop and a space, where a
\* whitespace separator was left out
C5_Witness ==
    /\ status = "done"
    /\ chunk_size >= 1
    /\ Len(result) >= 3
    /\ Contains(input, "a")
    /\ Contains(input, "DOT")
    /\ Contains(input, SP)
    /\ \E k \in 1..Len(result) : result[k] = <<"DOT">>
    /\ Flatten(result) # input

(***************************************************************************)
(* Properties of split_text (SpecSplit).                                   *)
(***************************************************************************)
HasLineCarriage(t) == \E k \in 1..Len(t) : t[k] \in {LF, CR}
HasTab(t) == \E k \in 1..Len(t) : t[k] = TAB
HasWhitespace(t) == \E k \in 1..Len(t) : t[k] \in {LF, CR, TAB, SP, NBSP}
HasListed(t) ==
    \E k \in 1..Len(NON_WHITESPACE_SEMANTIC_SEPARATORS) :
        Contains(t, NON_WHITESPACE_SEMANTIC_SEPARATORS[k])

\* sep occurs in t as a substring
Occurs(t, sep) ==
    \E k \in 1..(Len(t) - Len(sep) + 1) : SubSeq(t, k, k + Len(sep) - 1) = sep

\* the maximal runs of characters of the set cls in t, as <<first, last>>
MaximalRuns(t, cls) ==
    { p \in (1..Len(t)) \X (1..Len(t)) :
        /\ p[1] <= p[2]
        /\ \A k \in p[1]..p[2] : t[k] \in cls
        /\ (p[1] = 1 \/ t[p[1] - 1] \notin cls)
        /\ (p[2] = Len(t) \/ t[p[2] + 1] \notin cls) }

RunLen(p) == p[2] - p[1] + 1

\* the longest maximal runs
LongestRuns(t, cls) ==
    { p \in MaximalRuns(t, cls) : \A q \in MaximalRuns(t, cls) : RunLen(q) <= RunLen(p) }

\* C6 (separator class priority): split_text picks a newline/carriage-return
\* run if the span has a newline or carriage return; otherwise a tab
\* separator if it has a tab; otherwise a whitespace separator if it has any
\* whitespace; otherwise the first entry of the fixed list that occurs in
\* the span. is_whitespace is false exactly in the punctuation case, and the
\* chosen separator occurs in the span.
C6_ClassPriority ==
    status = "done" =>
        LET t == input
            sep == split_result.separator
            L == NON_WHITESPACE_SEMANTIC_SEPARATORS
        IN  /\ HasLineCarriage(t) =>
                  sep # <<>> /\ \A k \in 1..Len(sep) : sep[k] \in {LF, CR}
            /\ (~HasLineCarriage(t) /\ HasTab(t)) =>
                  sep # <<>> /\ \A k \in 1..Len(sep) : sep[k] = TAB
            /\ (~HasLineCarriage(t) /\ ~HasTab(t) /\ HasWhitespace(t)) =>
                  sep # <<>> /\ \A k \in 1..Len(sep) : sep[k] \in {SP, NBSP}
            /\ (~HasWhitespace(t) /\ HasListed(t)) =>
                  \E k \in 1..Len(L) :
                      /\ sep = <<L[k]>>
                      /\ \A j \in 1..(k - 1) : ~Contains(t, L[j])
            /\ split_result.separator_is_whitespace = ~(~HasWhitespace(t) /\ HasListed(t))
            /\ sep # <<>> => Occurs(t, sep)

\* C6's case: no whitespace, a comma before an exclamation mark: split on "!"
C6_Witness ==
    /\ status = "done"
    /\ ~HasWhitespace(input)
    /\ \E j, k \in 1..Len(input) : j < k /\ input[j] = "COMMA" /\ input[k] = "BANG"
    /\ split_result.separator = <<"BANG">>
    /\ ~split_result.separator_is_whitespace

\* C7 (longest newline run), as claimed: with a newline or carriage return in
\* the span, the separator is the longest maximal run of newline/carriage
\* return characters, the FIRST of them when several are equally long.
C7_LongestRunFirst ==
    (status = "done" /\ HasLineCarriage(input)) =>
        \E p \in LongestRuns(input, {LF, CR}) :
            /\ \A q \in LongestRuns(input, {LF, CR}) : p[1] <= q[1]
            /\ split_result.separator = SubSeq(input, p[1], p[2])

\* C7 as amended: the separator is the longest maximal run of
\* newline/carriage-return characters, the LAST of them when several are
\* equally long.
C7_LongestRunLast ==
    (status = "done" /\ HasLineCarriage(input)) =>
        \E p \in LongestRuns(input, {LF, CR}) :
            /\ \A q \in LongestRuns(input, {LF, CR}) : q[1] <= p[1]
            /\ split_result.separator = SubSeq(input, p[1], p[2])

\* C7's case: two longest runs of different content, and a shorter run
C7_Witness ==
    /\ status = "done"
    /\ \E p, q \in LongestRuns(input, {LF, CR}) :
          /\ p[1] < q[1]
          /\ SubSeq(input, p[1], p[2]) # SubSeq(input, q[1], q[2])
          /\ split_result.separator = SubSeq(input, q[1], q[2])

\* C8 (longest tab / whitespace run), as claimed: without newline or
\* carriage return, the separator is a longest maximal run of tabs when the
\* span has a tab, and a longest maximal run of whitespace characters when it
\* has whitespace but no tab.
C8_LongestTabOrSpaceRun ==
    status = "done" =>
        /\ (~HasLineCarriage(input) /\ HasTab(input)) =>
              \E p \in LongestRuns(input, {TAB}) :
                  split_result.separator = SubSeq(input, p[1], p[2])
        /\ (~HasLineCarriage(input) /\ ~HasTab(input) /\ HasWhitespace(input)) =>
              \E p \in LongestRuns(input, {SP, NBSP}) :
                  split_result.separator = SubSeq(input, p[1], p[2])

\* C9 (degenerate split), as claimed: for a span with no whitespace and none
\* of the listed punctuation, whatever the byte length of its characters,
\* split_text returns (does not fail) the empty separator, is_whitespace =
\* true and exactly one sub-span per character, in order, none empty.
C9_CharacterSplit ==
    (status # "idle" /\ ~HasWhitespace(input) /\ ~HasListed(input)) =>
        /\ status = "done"
        /\ split_result.separator = <<>>
        /\ split_result.separator_is_whitespace
        /\ split_result.text_splits = [k \in 1..Len(input) |-> <<input[k]>>]

(***************************************************************************)
(* Word grouping (Spec, counter "words", the texts of WordTexts).          *)
(***************************************************************************)
\* the words of a text of WordTexts
WordsOf(text) == StrSplit(text, <<SP>>)

\* successive groups of c consecutive words joined by single spaces, the last
\* group holding the remaining words: ceil(n / c) groups
WordGroups(text, c) ==
    LET ws == WordsOf(text)
        n == Len(ws)
    IN  [g \in 1..((n + c - 1) \div c) |->
            Join(SubSeq(ws, (g - 1) * c + 1, Min(g * c, n)), <<SP>>)]

\* C10 (word grouping), as claimed: with the word counter and any
\* chunk_size c >= 1, chunk of n >= 1 words separated by single spaces
\* returns (its walk ends, nothing fails) exactly the ceil(n/c) groups of c
\* consecutive words, in order.
C10_WordGroups ==
    (counter = "words" /\ chunk_size >= 1 /\ input \in WordTexts /\ status # "idle") =>
        /\ status \notin {"panic", "overflow"}
        /\ \A k \in 1..Len(stack) : stack[k].steps <= Len(stack[k].text_splits)
        /\ status = "done" => result = WordGroups(input, chunk_size)

\* the part of C10 that holds of the code: the same for chunk_size >= 2
WordGroupsFromTwo ==
    (counter = "words" /\ chunk_size >= 2 /\ input \in WordTexts /\ status # "idle") =>
        /\ status \notin {"panic", "overflow"}
        /\ \A k \in 1..Len(stack) : stack[k].steps <= Len(stack[k].text_splits)
        /\ status = "done" => result = WordGroups(input, chunk_size)

(***************************************************************************)
(* The bounds cut nothing but runs that never end.                         *)
(***************************************************************************)
\* The recursion bound is met only by a call on a one-character span that is
\* about to call itself on that same span, which it would do for ever.
\* (The walk bound MaxExtraSteps is met only by a walk that has made more
\* iterations than it has sub-spans, so one of them did not advance i; the
\* code being deterministic, that iteration repeats for ever.)
OverflowIsEndless ==
    status = "overflow" =>
        /\ Len(Top.text) = 1
        /\ Top.text_splits[Top.i + 1] = Top.text

(***************************************************************************)
(* Construction and the steps of the walk.                                 *)
(***************************************************************************)
\* C11 (configuration guard), as claimed: a Chunker with chunk_size = 0 is
\* refused at construction, so no call of chunk ever runs with a budget of 0:
\* whenever a call has been entered, chunk_size >= 1.
C11_ConfigurationGuard ==
    status # "idle" => chunk_size >= 1

\* a step of the walk of the activation at position k of the stack has just
\* been taken: a merge (the activation stays on top) or the return of the
\* call it made (the callee is popped)
MergeStep == status = "running" /\ merge.pc # "idle" /\ merge'.pc = "idle"
ReturnStep == Walking /\ Len(stack) > 1 /\ Len(stack') = Len(stack) - 1
WalkedBefore == IF MergeStep THEN Top ELSE stack[Len(stack) - 1]
WalkedAfter == stack'[Len(stack')]

\* the chunks the step emitted: the merged chunk, or the chunks the callee returned
Emitted ==
    IF MergeStep THEN <<MergeResult(merge).merged_chunk>> ELSE returned'.chunks

\* the chunk list the claim prescribes after the step
Prescribed(before, emitted, i, cs, cnt) ==
    LET base == before.chunks \o emitted
        sep == before.separator
    IN  IF ~before.separator_is_whitespace /\ i < Len(before.text_splits)
        THEN IF emitted # <<>> /\ Count(cnt, base[Len(base)] \o sep) <= cs
             THEN [base EXCEPT ![Len(base)] = @ \o sep]
             ELSE Append(base, sep)
        ELSE base

\* C12 (separator re-attachment), as claimed: after each step of the walk,
\* when the separator is non-whitespace and sub-spans remain, exactly one copy
\* of the separator is added: in place to the chunk emitted by that step iff
\* chunk + separator is within chunk_size, otherwise as a chunk of its own;
\* when the separator is whitespace or no sub-span remains, the chunks are
\* those already emitted, unchanged.
C12_Reattachment ==
    [][(MergeStep \/ ReturnStep) =>
          /\ chunk_size >= 1 => status' # "panic"
          /\ status' # "panic" =>
                WalkedAfter.chunks =
                   Prescribed(WalkedBefore, Emitted, WalkedAfter.i, chunk_size, counter)]_vars

\* the walk of the innermost activation has just re-attached its
\* non-whitespace separator as a chunk of its own, after having attached it
\* in place to an earlier chunk, and sub-spans remain
C12_Witness ==
    /\ Walking
    /\ chunk_size >= 1
    /\ Top.steps > 1
    /\ ~Top.separator_is_whitespace
    /\ Top.i < Len(Top.text_splits)
    /\ Len(Top.chunks) > 1
    /\ Top.chunks[Len(Top.chunks)] = Top.separator
    /\ Top.chunks[Len(Top.chunks) - 1] # <<>>
    /\ Count(counter, Top.chunks[Len(Top.chunks) - 1] \o Top.separator) > chunk_size
    /\ \E k \in 1..(Len(Top.chunks) - 1) :
          /\ Len(Top.chunks[k]) > Len(Top.separator)
          /\ Top.chunks[k][Len(Top.chunks[k])] = Top.separator[1]

\* the walk of the innermost activation is over and it is about to return
Returning == Walking /\ Top.i >= Len(Top.text_splits)

NoEmpty(chunks) == \A k \in 1..Len(chunks) : chunks[k] # <<>>

\* C13 (empty-chunk rule by depth), as claimed: a recursive call
\* (recursion_depth > 0) returns its accumulated chunks in order without the
\* empty ones, so its list holds no empty string; the top-level call returns
\* its accumulated list as it is, empty chunks included, and that list is the
\* result of chunk(text).
C13_EmptyByDepth ==
    [][Returning =>
          IF Top.recursion_depth > 0
          THEN /\ NoEmpty(returned'.chunks)
               /\ returned'.chunks = SelectSeq(Top.chunks, LAMBDA c : c # <<>>)
          ELSE /\ returned'.chunks = Top.chunks
               /\ result' = Top.chunks
               /\ status' = "done"]_vars

\* the last list a recursive call returned holds no empty string
C13_RecursiveReturn ==
    returned.recursion_depth > 0 => NoEmpty(returned.chunks)

\* chunk(text) has returned a list that still holds an empty chunk emitted by
\* the top-level walk, in a run where a recursive call dropped an empty chunk
C13_Witness ==
    /\ status = "done"
    /\ chunk_size >= 1
    /\ returned.dropped
    /\ \E k \in 1..Len(result) : result[k] = <<>>

(***************************************************************************)
(* The loop of merge_splits and the progress of the walk.                  *)
(***************************************************************************)
\* an iteration of the loop of merge_splits has just run: one more call of
\* the token counter
Iteration == merge.pc = "loop" /\ merge'.calls = merge.calls + 1

\* C14 (merge search loop), as claimed: in every iteration over n sub-spans
\* 0 <= low <= midpoint <= high - 1 < n, and the iteration ends the loop
\* (exact fit) or strictly shrinks high - low; so the loop makes at most n
\* calls of the token counter and count_consumed (low) is in 0..n.
C14_MergeLoop ==
    [][Iteration =>
          LET n == Len(merge.splits)
          IN  /\ 0 <= merge.low
              /\ merge.low <= merge'.est_midpoint
              /\ merge'.est_midpoint <= merge.high - 1
              /\ merge.high - 1 < n
              /\ \/ merge'.pc = "break"
                 \/ merge'.high - merge'.low < merge.high - merge.low
              /\ merge'.low <= merge'.high
              /\ merge'.calls <= n
              /\ MergeResult(merge').split_idx \in 0..n]_vars

\* a merge over three or more sub-spans has used all the calls it may make,
\* having both lowered high and raised low
C14_Witness ==
    /\ status = "running"
    /\ chunk_size >= 1
    /\ merge.pc # "idle"
    /\ Len(merge.splits) >= 3
    /\ merge.calls = Len(merge.splits)
    /\ merge.high < Len(merge.splits)
    /\ merge.low > 0

\* C15 (walk progress), as claimed: for chunk_size >= 1, a merge_splits call
\* made by the walk of _chunk (the first sub-span of its slice is within
\* chunk_size) returns a count_consumed of at least 1, so the walk index
\* strictly increases in the step.
C15_WalkProgress ==
    [][(MergeStep /\ chunk_size >= 1) =>
          /\ Count(counter, merge.splits[1]) <= chunk_size
          /\ MergeResult(merge).split_idx >= 1
          /\ WalkedAfter.i > WalkedBefore.i]_vars

\* the same, when the token counter gives the empty string fewer tokens than
\* chunk_size (the character and byte counters always; the word counter from
\* chunk_size 2)
C15_ProgressWhenEmptyIsFree ==
    [][(MergeStep /\ chunk_size >= 1 /\ Count(counter, <<>>) < chunk_size) =>
          /\ MergeResult(merge).split_idx >= 1
          /\ WalkedAfter.i > WalkedBefore.i]_vars
====
